---- MODULE Spec2Model ----
(***************************************************************************)
(* A model of nk (src/src/main.rs): the NightSky scene (stars, shooting    *)
(* stars, satellites), its update and render, and the driver loop run_app. *)
(*                                                                         *)
(* Numbers.  f32 positions and speeds are held as integers in units of     *)
(* 1/Scale of a cell.  Every speed and offset the model draws is a         *)
(* multiple of 1/16, so the sums the code forms in f32 are exact and the   *)
(* model's comparisons agree with the code's.  Angles (twinkle_speed,      *)
(* blink_phase) are held in hundredths of a radian and sin is Bhaskara's   *)
(* rational approximation in thousandths.                                  *)
(*                                                                         *)
(* Randomness.  rng.gen_range(lo..hi) is GenRange(lo, hi): the values it   *)
(* may return (both ends of the range are kept), and the empty set when    *)
(* the range is empty, where rand panics.  The bulk star field is drawn    *)
(* from a seeded stream so that 300 stars stay one value.                  *)
(***************************************************************************)
EXTENDS Integers, Sequences, FiniteSets, TLC

VARIABLES
    night_sky,        \* the NightSky owned by main / run_app
    area,             \* the terminal's current size, f.area() (origin 0,0)
    pending,          \* resize events queued by the terminal, not yet read
    pc,               \* position of run_app: draw, poll, update, or a final state
    event,            \* the event read in this iteration of the loop
    frame,            \* the Frame of the last terminal.draw: the draws render made
    culled            \* what the retains of the last update removed (history)

vars == <<night_sky, area, pending, pc, event, frame, culled>>

----------------------------------------------------------------------------
(* Bounds of the model *)

MaxFrames == 15      \* updates of one scene, in the scene specification
MaxTicks == 3        \* updates of one scene, in the driver specification
MaxShooting == 1     \* shooting stars in flight when a spawn roll may succeed
MaxPending == 1      \* resize events waiting to be read
MaxSeed == 2         \* seeds of the star stream
MaxLate == 3         \* updates before, and after, the limit of the counter
MaxHeight == 24      \* heights Satellite::new is tried on
MaxFlight == 3       \* shooting stars in flight, in the flight specification

(* Number representation *)

Scale == 16
U8Max == 255
U16Max == 65535

\* A u32 is held as its two 16-bit halves: TLC's integers are 32-bit signed,
\* and the counter keeps its own width this way.
U32(hi, lo) == [hi |-> hi, lo |-> lo]
U32Zero == U32(0, 0)
U32Max == U32(U16Max, U16Max)
\* wrapping_add(1)
U32Inc(n) ==
    IF n.lo < U16Max THEN U32(n.hi, n.lo + 1)
    ELSE IF n.hi < U16Max THEN U32(n.hi + 1, 0) ELSE U32Zero
U32Less(a, b) == a.hi < b.hi \/ (a.hi = b.hi /\ a.lo < b.lo)

Min(a, b) == IF a < b THEN a ELSE b

\* f32 as u16 : saturating, truncating
AsU16(v) == IF v < 0 THEN 0 ELSE Min(v \div Scale, U16Max)

\* f32 as i32 : truncation toward zero
AsI32(v) == IF v >= 0 THEN v \div Scale ELSE 0 - ((0 - v) \div Scale)

\* i32 as u16, for a non-negative i32 : the low 16 bits
I32AsU16(n) == n % (U16Max + 1)

\* sin of an angle c >= 0 in hundredths of a radian, in thousandths
Sin(c) ==
    LET r == c % 628
        h == IF r < 314 THEN r ELSE r - 314
        p == h * (314 - h)
        v == (16000 * p) \div (5 * 314 * 314 - 4 * p)
    IN IF r < 314 THEN v ELSE 0 - v

----------------------------------------------------------------------------
(* rand *)

\* rng.gen_range(lo..hi): panics on an empty range
GenRange(lo, hi) == IF lo >= hi THEN {} ELSE {lo, hi - 1}

\* the same draw, sampled at its low end only: for the row of a shooting
\* star, which no operation of the scene reads
GenRangeLow(lo, hi) == IF lo >= hi THEN {} ELSE {lo}

\* gen_range(2.0..4.0), gen_range(0.3..0.8) in 1/Scale; gen_range(0.0..6.28) in 1/100
ShootingSpeeds == {32, 56}
SatelliteSpeeds == {5, 8}
BlinkPhases == {0, 450}

\* star streams: one for the scene of the driver, several for construction
Seeds == {0}
NewSeeds == 0 .. MaxSeed

----------------------------------------------------------------------------
(* ShootingStar *)

\* ShootingStar::new: every value it may return; empty when a gen_range panics
ShootingStarNew(width, height) ==
    { [x |-> xv * Scale, y |-> yv * Scale, speed |-> sp,
       lifetime |-> 0, max_lifetime |-> ml] :
         xv \in GenRange(0, width), yv \in GenRangeLow(0, height \div 2),
         sp \in ShootingSpeeds, ml \in GenRange(15, 30) }

\* ShootingStar::update (speed * 0.5 is exact: the speeds are even)
ShootingStarUpdate(s) ==
    [s EXCEPT !.x = s.x + s.speed,
              !.y = s.y + s.speed \div 2,
              !.lifetime = s.lifetime + 1]

\* an is_alive that grants one more frame
IsAliveInclusive(s) == s.lifetime <= s.max_lifetime

\* ShootingStar::is_alive
IsAlive(s) == s.lifetime < s.max_lifetime

----------------------------------------------------------------------------
(* Satellite *)

\* u16::saturating_sub
SaturatingSub(a, b) == IF a >= b THEN a - b ELSE 0

\* Satellite::new: every value it may return; empty when gen_range panics
SatelliteNew(width, height) ==
    { [x |-> 0, y |-> yv * Scale, speed |-> sp, blink_phase |-> bp] :
         yv \in GenRange(5, SaturatingSub(height, 5)),
         sp \in SatelliteSpeeds, bp \in BlinkPhases }

\* a satellite update that forgets the reset of lines 77-79
SatelliteUpdateNoWrap(s, width) ==
    [s EXCEPT !.x = s.x + s.speed, !.blink_phase = s.blink_phase + 10]

\* Satellite::update
SatelliteUpdate(s, width) ==
    LET x1 == s.x + s.speed
    IN [s EXCEPT !.x = IF x1 > width * Scale THEN 0 ELSE x1,
                 !.blink_phase = s.blink_phase + 10]

----------------------------------------------------------------------------
(* NightSky *)

\* The i-th star of the stream with the given seed: each field is a
\* gen_range draw, so x is in 0..width-1, y in 0..height-1, brightness in
\* 1..5 and twinkle_speed in [0.10, 0.50).  Called only with width,
\* height > 0: star_count is 0 otherwise and the closure never runs.
StarOf(seed, i, width, height) ==
    [x |-> (seed * 13 + i * 7) % width,
     y |-> (seed * 5 + i * 3) % height,
     brightness |-> 1 + ((seed + i) % 5),
     twinkle_speed |-> 10 + ((seed * 17 + i * 11) % 40)]

\* a star count without the cap of 300
StarCountUncapped(width, height) == (width * height) \div 20

StarCount(width, height) == Min((width * height) \div 20, 300)

\* NightSky::new
NightSkyNew(width, height, seed) ==
    [stars |-> [i \in 1 .. StarCount(width, height) |->
                   StarOf(seed, i, width, height)],
     shooting_stars |-> <<>>,
     satellites |-> <<>>,
     frame_count |-> U32Zero,
     width |-> width,
     height |-> height]

\* a retain that forgets the position, and no retain at all
ShootingStarKeptAliveOnly(s, width) == IsAlive(s)
ShootingStarKeptAll(s, width) == TRUE

\* the retain of the shooting stars (line 132)
ShootingStarKept(s, width) == IsAlive(s) /\ s.x < width * Scale

\* a retain of the satellites that keeps the one standing on x = width
SatelliteKeptAtWidth(s, width) == s.x <= width * Scale

\* the retain of the satellites (line 143)
SatelliteKept(s, width) == s.x < width * Scale

\* a satellite spawn that forgets satellites.is_empty()
SpawnsSatelliteUnguarded(satellites, roll) == roll < 1

\* the spawn conditions (lines 124 and 135)
SpawnsShootingStar(roll) == roll < 2
SpawnsSatellite(satellites, roll) == satellites = <<>> /\ roll < 1

\* self.frame_count += 1 on a u32
FrameCountOverflows(sky) == sky.frame_count = U32Max

\* whether the build checks overflow decides an update only at the limit
BuildsAt(sky) == IF FrameCountOverflows(sky) THEN BOOLEAN ELSE {FALSE}

PanicOutcome == [panic |-> TRUE]

\* lines 139-143 on the satellites sats, and the scene update returns
UpdateResult(sky, fc, kept, gone, sats) ==
    LET moved == [i \in 1 .. Len(sats) |-> SatelliteUpdate(sats[i], sky.width)]
    IN [panic |-> FALSE,
        sky |-> [sky EXCEPT
                   !.frame_count = fc,
                   !.shooting_stars = kept,
                   !.satellites =
                       SelectSeq(moved, LAMBDA s : SatelliteKept(s, sky.width))],
        culled |-> [shooting_stars |-> gone,
                    satellites |->
                       SelectSeq(moved, LAMBDA s : ~SatelliteKept(s, sky.width))]]

\* lines 132-143, given the advanced shooting stars of lines 123-131
UpdateSatellites(sky, fc, advanced, roll2) ==
    LET w == sky.width
        kept == SelectSeq(advanced, LAMBDA s : ShootingStarKept(s, w))
        gone == SelectSeq(advanced, LAMBDA s : ~ShootingStarKept(s, w))
        lists == IF SpawnsSatellite(sky.satellites, roll2)
                 THEN { Append(sky.satellites, n) :
                          n \in SatelliteNew(w, sky.height) }
                 ELSE { sky.satellites }
    IN IF lists = {} THEN { PanicOutcome }
       ELSE { UpdateResult(sky, fc, kept, gone, sats) : sats \in lists }

\* NightSky::update with the two spawn rolls given: every outcome, a panic
\* or the scene after the update together with what the retains removed
NightSkyUpdate(sky, checks, roll1, roll2) ==
    IF FrameCountOverflows(sky) /\ checks THEN { PanicOutcome }
    ELSE
      LET fc == U32Inc(sky.frame_count)
          lists == IF SpawnsShootingStar(roll1)
                   THEN { Append(sky.shooting_stars, n) :
                            n \in ShootingStarNew(sky.width, sky.height) }
                   ELSE { sky.shooting_stars }
      IN IF lists = {} THEN { PanicOutcome }
         ELSE UNION { UpdateSatellites(sky, fc,
                          [i \in 1 .. Len(ss) |-> ShootingStarUpdate(ss[i])],
                          roll2) : ss \in lists }

----------------------------------------------------------------------------
(* NightSky::render *)

Rect(x, y, width, height) == [x |-> x, y |-> y, width |-> width, height |-> height]

\* one frame.render_widget call: the widget's rectangle, glyph and colour
Draw(kind, rect, glyph, color) ==
    [kind |-> kind, rect |-> rect, glyph |-> glyph, color |-> color]

RECURSIVE Flatten(_)
Flatten(seqs) == IF seqs = <<>> THEN <<>> ELSE Head(seqs) \o Flatten(Tail(seqs))

\* frame_count as f32 * twinkle_speed, in hundredths of a radian modulo 628
TwinkleAngle(fc, twinkle_speed) ==
    (((fc.hi % 628) * 224 + (fc.lo % 628)) * twinkle_speed) % 628

\* line 158-159: (star.brightness as f32 * twinkle) as u8
DisplayedBrightness(star, fc) ==
    (star.brightness * (Sin(TwinkleAngle(fc, star.twinkle_speed)) + 1000))
        \div 2000

\* lines 161-167
StarColor(brightness) ==
    CASE brightness \in 0 .. 1 -> <<100, 100, 120>>
      [] brightness = 2 -> <<150, 150, 180>>
      [] brightness = 3 -> <<200, 200, 220>>
      [] brightness = 4 -> <<230, 230, 250>>
      [] OTHER -> <<255, 255, 255>>

\* a glyph table whose first arm is 0..=2
StarCharDimToTwo(brightness) ==
    CASE brightness \in 0 .. 2 -> "middle_dot"
      [] brightness = 3 -> "bullet"
      [] OTHER -> "four_pointed_star"

\* lines 169-173
StarChar(brightness) ==
    CASE brightness \in 0 .. 1 -> "middle_dot"
      [] brightness \in 2 .. 3 -> "bullet"
      [] OTHER -> "four_pointed_star"

\* a bounds test that forgets the height
StarVisibleWidthOnly(star, a) == star.x < a.width

\* line 156
StarVisible(star, a) == star.x < a.width /\ star.y < a.height

\* lines 158-184, for one visible star
StarDraw(st, fc, a) ==
    Draw("star", Rect(a.x + st.x, a.y + st.y, 1, 1),
         StarChar(DisplayedBrightness(st, fc)),
         StarColor(DisplayedBrightness(st, fc)))

\* lines 155-186
StarDraws(sky, a) ==
    LET seen == SelectSeq(sky.stars, LAMBDA st : StarVisible(st, a))
    IN [i \in 1 .. Len(seen) |-> StarDraw(seen[i], sky.frame_count, a)]

\* lines 208-211, for trail dot i
TrailX(s, i) == AsI32(s.x - i * (Scale \div 2))
TrailY(s, i) == AsI32(s.y - i * (Scale \div 4))
TrailVisible(s, i, a) ==
    /\ TrailX(s, i) >= 0
    /\ TrailY(s, i) >= 0
    /\ I32AsU16(TrailX(s, i)) < a.width
    /\ I32AsU16(TrailY(s, i)) < a.height

\* line 193
HeadVisible(s, a) == AsU16(s.x) < a.width /\ AsU16(s.y) < a.height

\* lines 207-223
TrailDraws(s, a) ==
    LET seen == SelectSeq(<<1, 2, 3>>, LAMBDA i : TrailVisible(s, i, a))
    IN [k \in 1 .. Len(seen) |->
          Draw("trail",
               Rect(a.x + I32AsU16(TrailX(s, seen[k])),
                    a.y + I32AsU16(TrailY(s, seen[k])), 1, 1),
               "middle_dot", <<200, 150, 50>>)]

\* a render whose trail loop stands beside the test of the head, not in it
ShootingStarDrawsUnnested(s, a) ==
    (IF HeadVisible(s, a)
     THEN <<Draw("head", Rect(a.x + AsU16(s.x), a.y + AsU16(s.y), 1, 1),
                 "comet", <<255, 200, 100>>)>>
     ELSE <<>>) \o TrailDraws(s, a)

\* lines 190-224, for one shooting star
ShootingStarDraws(s, a) ==
    IF HeadVisible(s, a)
    THEN <<Draw("head", Rect(a.x + AsU16(s.x), a.y + AsU16(s.y), 1, 1),
                "comet", <<255, 200, 100>>)>> \o TrailDraws(s, a)
    ELSE <<>>

\* line 232
SatelliteVisible(s, a) == AsU16(s.x) < a.width /\ AsU16(s.y) < a.height

\* lines 234-235: (200.0 + blink * 55.0) as u8, blink = (sin + 1) / 2
SatelliteBrightness(s) ==
    Min((400000 + (Sin(s.blink_phase) + 1000) * 55) \div 2000, U8Max)

\* line 238: brightness + 50 on a u8 overflows
BlueOverflows(s) == SatelliteBrightness(s) + 50 > U8Max

\* line 238: the colour in a build that wraps
SatelliteColor(s) ==
    <<SatelliteBrightness(s), SatelliteBrightness(s),
      (SatelliteBrightness(s) + 50) % (U8Max + 1)>>

\* lines 228-248
SatelliteDraws(sky, a) ==
    LET seen == SelectSeq(sky.satellites, LAMBDA s : SatelliteVisible(s, a))
    IN [i \in 1 .. Len(seen) |->
          Draw("satellite",
               Rect(a.x + AsU16(seen[i].x), a.y + AsU16(seen[i].y), 1, 1),
               "diamond", SatelliteColor(seen[i]))]

\* render panics when a visible satellite's colour overflows and the build checks
RenderPanics(sky, a, checks) ==
    /\ checks
    /\ \E i \in 1 .. Len(sky.satellites) :
          SatelliteVisible(sky.satellites[i], a) /\ BlueOverflows(sky.satellites[i])

\* a render that draws the satellites before the stars
NightSkyRenderSatellitesFirst(sky, a) ==
    <<Draw("background", a, "none", <<10, 10, 30>>)>>
      \o SatelliteDraws(sky, a)
      \o StarDraws(sky, a)
      \o Flatten([i \in 1 .. Len(sky.shooting_stars) |->
                     ShootingStarDraws(sky.shooting_stars[i], a)])

\* NightSky::render: the draws in the order the code makes them
NightSkyRender(sky, a) ==
    <<Draw("background", a, "none", <<10, 10, 30>>)>>
      \o StarDraws(sky, a)
      \o Flatten([i \in 1 .. Len(sky.shooting_stars) |->
                     ShootingStarDraws(sky.shooting_stars[i], a)])
      \o SatelliteDraws(sky, a)

\* a render that counts frames itself
SceneAfterRenderCounting(sky) == [sky EXCEPT !.frame_count = U32Inc(@)]

\* render takes &self: the scene it leaves behind
SceneAfterRender(sky) == sky

----------------------------------------------------------------------------
(* The driver: main and run_app *)

Size(width, height) == Rect(0, 0, width, height)

\* the terminal sizes the model draws from
Sizes == { Size(40, 11), Size(3, 11), Size(0, 11), Size(3, 0) }

\* crossterm events, and the outcome of a poll that timed out
Event(type, code, width, height) ==
    [type |-> type, code |-> code, width |-> width, height |-> height]
NoEvent == Event("none", "none", 0, 0)
Timeout == Event("timeout", "none", 0, 0)
KeyEvent(code) == Event("key", code, 0, 0)
ResizeEvent(width, height) == Event("resize", "none", width, height)
OtherEvent == Event("mouse", "none", 0, 0)
KeyCodes == {"q", "Esc", "x"}

\* line 298
IsQuit(e) == e.type = "key" /\ (e.code = "q" \/ e.code = "Esc")

NoFrame == [area |-> Size(0, 0), draws |-> <<>>]
NoneCulled == [shooting_stars |-> <<>>, satellites |-> <<>>]

Running == pc \in {"draw", "poll", "update"}

\* main, lines 264-265: the scene is built for the terminal's size
Init ==
    /\ area \in Sizes
    /\ \E seed \in Seeds : night_sky = NightSkyNew(area.width, area.height, seed)
    /\ pending = <<>>
    /\ pc = "draw"
    /\ event = NoEvent
    /\ frame = NoFrame
    /\ culled = NoneCulled

\* lines 290-292: terminal.draw calls render on the terminal's current area.
\* Whether an overflow panics or wraps is the build's choice: both are kept.
Render ==
    /\ pc = "draw"
    /\ \E checks \in BOOLEAN : ~RenderPanics(night_sky, area, checks)
    /\ frame' = [area |-> area, draws |-> NightSkyRender(night_sky, area)]
    /\ night_sky' = SceneAfterRender(night_sky)
    /\ pc' = "poll"
    /\ culled' = NoneCulled
    /\ UNCHANGED <<area, pending, event>>

\* line 238 overflows in a build with overflow checks
RenderPanic ==
    /\ pc = "draw"
    /\ \E checks \in BOOLEAN : RenderPanics(night_sky, area, checks)
    /\ pc' = "panicked"
    /\ UNCHANGED <<night_sky, area, pending, event, frame, culled>>

\* the terminal is resized: its size changes at once, the event waits
TerminalResized ==
    /\ Running
    /\ Len(pending) < MaxPending
    /\ \E size \in Sizes \ {area} :
          /\ area' = size
          /\ pending' = Append(pending, ResizeEvent(size.width, size.height))
    /\ UNCHANGED <<night_sky, pc, event, frame, culled>>

\* line 295: poll returns false after 50 ms
PollTimeout ==
    /\ pc = "poll"
    /\ pending = <<>>
    /\ event' = Timeout
    /\ pc' = "update"
    /\ frame' = NoFrame
    /\ UNCHANGED <<night_sky, area, pending, culled>>

\* a quit test that forgets Esc
AfterEventQOnly(e) ==
    IF e.type = "key" /\ e.code = "q" THEN "terminated" ELSE "update"

\* a loop that goes back to the draw after an event, without the update
AfterEventSkipping(e) == IF IsQuit(e) THEN "terminated" ELSE "draw"

\* where the loop goes after reading event e (lines 297-308)
AfterEvent(e) == IF IsQuit(e) THEN "terminated" ELSE "update"

\* lines 297-301
ReadKey ==
    /\ pc = "poll"
    /\ \E code \in KeyCodes :
          /\ event' = KeyEvent(code)
          /\ pc' = AfterEvent(KeyEvent(code))
    /\ frame' = NoFrame
    /\ UNCHANGED <<night_sky, area, pending, culled>>

\* a resize that regenerates the stars but keeps the moving entities
SceneOnResizeKeeping(sky, width, height, seed) ==
    [NightSkyNew(width, height, seed) EXCEPT
        !.shooting_stars = sky.shooting_stars,
        !.satellites = sky.satellites]

\* the scene a resize event leaves (line 304)
SceneOnResize(sky, width, height, seed) == NightSkyNew(width, height, seed)

\* lines 302-305
ReadResize ==
    /\ pc = "poll"
    /\ pending # <<>>
    /\ event' = Head(pending)
    /\ pending' = Tail(pending)
    /\ \E seed \in Seeds :
          night_sky' = SceneOnResize(night_sky, Head(pending).width,
                                     Head(pending).height, seed)
    /\ pc' = AfterEvent(Head(pending))
    /\ frame' = NoFrame
    /\ UNCHANGED <<area, culled>>

\* line 306
ReadOther ==
    /\ pc = "poll"
    /\ event' = OtherEvent
    /\ pc' = AfterEvent(OtherEvent)
    /\ frame' = NoFrame
    /\ UNCHANGED <<night_sky, area, pending, culled>>

\* the ? of lines 292, 295 and 296: an I/O error ends run_app with Err
IoError ==
    /\ pc \in {"draw", "poll"}
    /\ pc' = "error"
    /\ UNCHANGED <<night_sky, area, pending, event, frame, culled>>

\* the shooting stars in flight up to which a spawn roll may succeed
ShootingCap == IF pc = "flight" THEN MaxFlight ELSE MaxShooting

\* the outcomes of night_sky.update() in the bounded model: a spawn roll may
\* succeed only while fewer than ShootingCap shooting stars are in flight
UpdateOutcomes ==
    UNION { NightSkyUpdate(night_sky, checks, roll1, roll2) :
              checks \in BuildsAt(night_sky),
              roll1 \in { r \in GenRange(0, 100) :
                            SpawnsShootingStar(r) =>
                              Len(night_sky.shooting_stars) < ShootingCap },
              roll2 \in GenRange(0, 300) }

\* night_sky.update() returns
Updated ==
    \E o \in UpdateOutcomes :
          /\ ~o.panic
          /\ night_sky' = o.sky
          /\ culled' = o.culled

\* night_sky.update() panics
UpdatePanicked == \E o \in UpdateOutcomes : o.panic

\* line 310, the end of one iteration of the loop
Update ==
    /\ pc = "update"
    /\ U32Less(night_sky.frame_count, U32(0, MaxTicks))
    /\ Updated
    /\ pc' = "draw"
    /\ event' = NoEvent
    /\ UNCHANGED <<area, pending, frame>>

\* line 310, when a gen_range or the frame counter panics
UpdatePanic ==
    /\ pc = "update"
    /\ U32Less(night_sky.frame_count, U32(0, MaxTicks))
    /\ UpdatePanicked
    /\ pc' = "panicked"
    /\ UNCHANGED <<night_sky, area, pending, event, frame, culled>>

Next ==
    \/ Render
    \/ RenderPanic
    \/ TerminalResized
    \/ PollTimeout
    \/ ReadKey
    \/ ReadResize
    \/ ReadOther
    \/ IoError
    \/ Update
    \/ UpdatePanic

Spec == Init /\ [][Next]_vars

----------------------------------------------------------------------------
(* The scene alone: any sequence of updates of a scene *)

InitScene ==
    /\ area \in Sizes
    /\ \E seed \in Seeds : night_sky = NightSkyNew(area.width, area.height, seed)
    /\ pending = <<>>
    /\ pc = "scene"
    /\ event = NoEvent
    /\ frame = NoFrame
    /\ culled = NoneCulled

SceneUpdate ==
    /\ pc = "scene"
    /\ U32Less(night_sky.frame_count, U32(0, MaxFrames))
    /\ Updated
    /\ UNCHANGED <<area, pending, pc, event, frame>>

SceneUpdatePanic ==
    /\ pc = "scene"
    /\ U32Less(night_sky.frame_count, U32(0, MaxFrames))
    /\ UpdatePanicked
    /\ pc' = "panicked"
    /\ UNCHANGED <<night_sky, area, pending, event, frame, culled>>

NextScene == SceneUpdate \/ SceneUpdatePanic

SpecScene == InitScene /\ [][NextScene]_vars

----------------------------------------------------------------------------
(* The scene alone, after 2^32 - 1 - MaxLate updates: the frame counter is
   about to reach the limit of u32.  At 20 updates a second this is a run
   of some 6.8 years. *)

\* whether the run goes on from this frame count: up to the limit and,
\* where the counter wraps, MaxLate updates past it
LateFrame(fc) == fc.hi = U16Max \/ U32Less(fc, U32(0, MaxLate))

InitLate ==
    /\ area \in Sizes
    /\ \E seed \in Seeds :
          night_sky = [NightSkyNew(area.width, area.height, seed) EXCEPT
                          !.frame_count = U32(U16Max, U16Max - MaxLate)]
    /\ pending = <<>>
    /\ pc = "scene"
    /\ event = NoEvent
    /\ frame = NoFrame
    /\ culled = NoneCulled

LateUpdate ==
    /\ pc = "scene"
    /\ LateFrame(night_sky.frame_count)
    /\ Updated
    /\ UNCHANGED <<area, pending, pc, event, frame>>

LateUpdatePanic ==
    /\ pc = "scene"
    /\ LateFrame(night_sky.frame_count)
    /\ UpdatePanicked
    /\ pc' = "panicked"
    /\ UNCHANGED <<night_sky, area, pending, event, frame, culled>>

NextLate == LateUpdate \/ LateUpdatePanic

SpecLate == InitLate /\ [][NextLate]_vars

----------------------------------------------------------------------------
(* NightSky::new alone, on a wider range of sizes *)

NewWidths == {0, 1, 19, 20, 21, 100, 150}
NewHeights == {0, 1, 2, 20, 40, 41}

\* the scene variable of main before line 265 has run
NoSky ==
    [stars |-> <<>>, shooting_stars |-> <<>>, satellites |-> <<>>,
     frame_count |-> U32Zero, width |-> 0, height |-> 0]

InitNew ==
    /\ area \in { Size(w, h) : w \in NewWidths, h \in NewHeights }
    /\ night_sky = NoSky
    /\ pending = <<>>
    /\ pc = "main"
    /\ event = NoEvent
    /\ frame = NoFrame
    /\ culled = NoneCulled

\* line 265
Construct ==
    /\ pc = "main"
    /\ \E seed \in NewSeeds :
          night_sky' = NightSkyNew(area.width, area.height, seed)
    /\ pc' = "draw"
    /\ UNCHANGED <<area, pending, event, frame, culled>>

NextNew == Construct

SpecNew == InitNew /\ [][NextNew]_vars

----------------------------------------------------------------------------
(* The shooting stars of one scene, several in flight at once: the scene of
   a 40 x 4 terminal, in which no satellite can be spawned *)

InitFlight ==
    /\ area = Size(40, 4)
    /\ \E seed \in Seeds : night_sky = NightSkyNew(area.width, area.height, seed)
    /\ pending = <<>>
    /\ pc = "flight"
    /\ event = NoEvent
    /\ frame = NoFrame
    /\ culled = NoneCulled

FlightUpdate ==
    /\ pc = "flight"
    /\ U32Less(night_sky.frame_count, U32(0, MaxFrames))
    /\ Updated
    /\ UNCHANGED <<area, pending, pc, event, frame>>

FlightUpdatePanic ==
    /\ pc = "flight"
    /\ U32Less(night_sky.frame_count, U32(0, MaxFrames))
    /\ UpdatePanicked
    /\ pc' = "panicked"
    /\ UNCHANGED <<night_sky, area, pending, event, frame, culled>>

NextFlight == FlightUpdate \/ FlightUpdatePanic

SpecFlight == InitFlight /\ [][NextFlight]_vars

----------------------------------------------------------------------------
(* Satellite::new alone, on every height up to MaxHeight *)

SatWidths == {0, 40}

InitSat ==
    /\ area \in { Size(w, h) : w \in SatWidths, h \in 0 .. MaxHeight }
    /\ \E seed \in Seeds : night_sky = NightSkyNew(area.width, area.height, seed)
    /\ pending = <<>>
    /\ pc = "spawn"
    /\ event = NoEvent
    /\ frame = NoFrame
    /\ culled = NoneCulled

\* line 136: self.satellites.push(Satellite::new(self.width, self.height))
SpawnSatellite ==
    /\ pc = "spawn"
    /\ \E n \in SatelliteNew(night_sky.width, night_sky.height) :
          night_sky' = [night_sky EXCEPT !.satellites = Append(@, n)]
    /\ pc' = "spawned"
    /\ UNCHANGED <<area, pending, event, frame, culled>>

\* line 66: gen_range panics on an empty range
SpawnSatellitePanic ==
    /\ pc = "spawn"
    /\ SatelliteNew(night_sky.width, night_sky.height) = {}
    /\ pc' = "panicked"
    /\ UNCHANGED <<night_sky, area, pending, event, frame, culled>>

NextSat == SpawnSatellite \/ SpawnSatellitePanic

SpecSat == InitSat /\ [][NextSat]_vars

----------------------------------------------------------------------------
(* The render of one star alone, on every base brightness: the scene of a
   5 x 4 terminal, which has one star, after some updates *)

\* the frame counts and the twinkle speeds (hundredths of a radian per
\* frame, in [0.10, 0.50)) the star is rendered with; 157 frames at 0.13
\* are a quarter of a period, where the sine is 1
StarFrames == {0, 1, 2, 3, 50, 157}
TwinkleSpeeds == {10, 13, 21, 36, 49}

InitStar ==
    /\ area = Size(5, 4)
    /\ \E seed \in Seeds, b \in 1 .. 5, ts \in TwinkleSpeeds, f \in StarFrames :
          night_sky =
             [NightSkyNew(area.width, area.height, seed) EXCEPT
                 !.stars = [i \in DOMAIN @ |->
                              [@[i] EXCEPT !.brightness = b,
                                           !.twinkle_speed = ts]],
                 !.frame_count = U32(0, f)]
    /\ pending = <<>>
    /\ pc = "draw"
    /\ event = NoEvent
    /\ frame = NoFrame
    /\ culled = NoneCulled

NextStar == Render

SpecStar == InitStar /\ [][NextStar]_vars

----------------------------------------------------------------------------
(* Properties *)

Range(seq) == { seq[i] : i \in DOMAIN seq }

\* the star count the specification gives for a width and a height
SpecStarCount(width, height) ==
    IF (width * height) \div 20 < 300 THEN (width * height) \div 20 ELSE 300

\* C1: in every state reached by updates and resize replacements the
\* satellites collection holds at most one Satellite.
C1_AtMostOneSatellite == Len(night_sky.satellites) <= 1

\* a satellite that has lived through two updates, with another update due
C1_Witness ==
    /\ pc = "update"
    /\ Len(night_sky.satellites) = 1
    /\ night_sky.satellites[1].x > night_sky.satellites[1].speed

\* C2: new, update and render never fail, for any non-negative width and
\* height, zero and heights below 10 included.
C2_NeverFails == pc # "panicked"

\* C3: for width, height > 0, NightSky::new(width, height) has exactly
\* min(floor(width*height/20), 300) stars, each inside the scene and of
\* brightness 1..5, no shooting stars, no satellites and frame_count 0;
\* new(100, 40) has 200 stars.
C3_NewScene ==
    (pc = "draw" /\ night_sky.width > 0 /\ night_sky.height > 0) =>
        /\ night_sky.width = area.width /\ night_sky.height = area.height
        /\ Len(night_sky.stars) = SpecStarCount(area.width, area.height)
        /\ \A i \in 1 .. Len(night_sky.stars) :
              /\ night_sky.stars[i].x \in 0 .. area.width - 1
              /\ night_sky.stars[i].y \in 0 .. area.height - 1
              /\ night_sky.stars[i].brightness \in 1 .. 5
        /\ night_sky.shooting_stars = <<>>
        /\ night_sky.satellites = <<>>
        /\ night_sky.frame_count = U32Zero
        /\ (area.width = 100 /\ area.height = 40) => Len(night_sky.stars) = 200

\* a scene built where the cap of 300 applies
C3_Witness ==
    /\ pc = "draw"
    /\ (night_sky.width * night_sky.height) \div 20 > 300
    /\ Len(night_sky.stars) = 300

\* C4: after every update each ShootingStar in the collection has
\* lifetime < max_lifetime and x < width.
C4_ShootingStarsAlive ==
    \A i \in 1 .. Len(night_sky.shooting_stars) :
        /\ night_sky.shooting_stars[i].lifetime
              < night_sky.shooting_stars[i].max_lifetime
        /\ night_sky.shooting_stars[i].x < night_sky.width * Scale

\* a shooting star kept by an update with one frame of its lifetime left
C4_Witness ==
    /\ \E i \in 1 .. Len(night_sky.shooting_stars) :
          night_sky.shooting_stars[i].lifetime + 1
              = night_sky.shooting_stars[i].max_lifetime
    /\ night_sky.frame_count # U32Zero

\* C5: a ShootingStar with lifetime = max_lifetime - 1 is still in the
\* collection after one more update only if its advanced x < width.
C5_LastFrame ==
    [][\A i \in 1 .. Len(night_sky.shooting_stars) :
          (/\ night_sky.shooting_stars[i].lifetime + 1
                 = night_sky.shooting_stars[i].max_lifetime
           /\ night_sky'.frame_count # night_sky.frame_count
           /\ [night_sky.shooting_stars[i] EXCEPT
                 !.x = @ + night_sky.shooting_stars[i].speed,
                 !.y = @ + night_sky.shooting_stars[i].speed \div 2,
                 !.lifetime = @ + 1] \in Range(night_sky'.shooting_stars))
          => night_sky.shooting_stars[i].x + night_sky.shooting_stars[i].speed
                < night_sky.width * Scale]_vars

\* a shooting star removed by the update that brought it to max_lifetime,
\* inside the width
C5_Witness ==
    \E i \in 1 .. Len(culled.shooting_stars) :
        /\ culled.shooting_stars[i].lifetime = culled.shooting_stars[i].max_lifetime
        /\ culled.shooting_stars[i].x < night_sky.width * Scale

\* what C6 says of one update step, for the scenes where applies holds: a
\* satellite whose advance exceeds the width is in the scene afterwards, at
\* x = 0, and no satellite that was reset to 0 is removed
WrapKeeps(applies) ==
    (applies /\ night_sky'.frame_count # night_sky.frame_count) =>
        /\ \A i \in 1 .. Len(night_sky.satellites) :
              night_sky.satellites[i].x + night_sky.satellites[i].speed
                    > night_sky.width * Scale
                 => [night_sky.satellites[i] EXCEPT
                        !.x = 0, !.blink_phase = @ + 10]
                      \in Range(night_sky'.satellites)
        /\ \A j \in 1 .. Len(culled'.satellites) : culled'.satellites[j].x # 0

SceneWhole ==
    /\ Len(night_sky.stars) = SpecStarCount(night_sky.width, night_sky.height)
    /\ \A i \in 1 .. Len(night_sky.stars) :
          /\ night_sky.stars[i].x < night_sky.width
          /\ night_sky.stars[i].y < night_sky.height
    /\ night_sky.frame_count.hi = 0
    /\ \A i \in 1 .. Len(night_sky.shooting_stars) :
          /\ night_sky.shooting_stars[i].lifetime <= night_sky.frame_count.lo
          /\ night_sky.shooting_stars[i].x < night_sky.width * Scale
    /\ \A i \in 1 .. Len(night_sky.satellites) :
          night_sky.satellites[i].x < night_sky.width * Scale

\* C7: reading a resize event (w2, h2) leaves NightSky::new(w2, h2): no
\* shooting star, no satellite, the star count of (w2, h2); and every frame
\* is rendered from a scene that is whole.
C7_ResizeReplaces ==
    /\ [][(pc = "poll" /\ event'.type = "resize") =>
            /\ night_sky'.shooting_stars = <<>>
            /\ night_sky'.satellites = <<>>
            /\ night_sky'.frame_count = U32Zero
            /\ night_sky'.width = event'.width
            /\ night_sky'.height = event'.height
            /\ Len(night_sky'.stars) = SpecStarCount(event'.width, event'.height)
            /\ SceneWhole']_vars
    /\ [](pc \in {"draw", "poll"} => SceneWhole)

\* a resize event has been read and the new scene has stars
C7_Witness ==
    /\ pc = "update"
    /\ event.type = "resize"
    /\ night_sky.width = event.width
    /\ Len(night_sky.stars) > 0

\* C8: the loop terminates exactly when a key event q or Esc is read; any
\* other outcome of the poll goes on to the update; the quitting tick
\* updates nothing and nothing happens after it.
C8_QuitOnly ==
    [][/\ (pc = "poll" /\ pc' \notin {"poll", "error"}) =>
             /\ pc' \in {"terminated", "update"}
             /\ pc' = "terminated" <=>
                   (event'.type = "key" /\ event'.code \in {"q", "Esc"})
       /\ pc' = "terminated" =>
             (pc = "poll" /\ night_sky' = night_sky)
       /\ pc # "terminated"]_vars

\* the loop has ended on Esc
C8_Witness == pc = "terminated" /\ event = KeyEvent("Esc")

\* the cells of a widget's rectangle lie inside the area a
Inside(rect, a) ==
    \/ rect.width = 0
    \/ rect.height = 0
    \/ /\ rect.x >= a.x /\ rect.x + rect.width <= a.x + a.width
       /\ rect.y >= a.y /\ rect.y + rect.height <= a.y + a.height

\* C9: every cell render writes lies inside the viewport it was given,
\* whatever the scene's own dimensions.
C9_DrawsInside ==
    \A i \in 1 .. Len(frame.draws) : Inside(frame.draws[i].rect, frame.area)

\* a frame rendered on a viewport narrower than the scene, with a trail dot
\* and a satellite drawn and a star left out
C9_Witness ==
    /\ pc = "poll"
    /\ frame.area.width < night_sky.width
    /\ \E i \in 1 .. Len(frame.draws) : frame.draws[i].kind = "trail"
    /\ \E i \in 1 .. Len(frame.draws) : frame.draws[i].kind = "satellite"
    /\ \E i \in 1 .. Len(night_sky.stars) :
          night_sky.stars[i].x >= frame.area.width

\* C10: a render call leaves stars, shooting_stars, satellites,
\* frame_count, width and height as they were.
C10_RenderReadOnly ==
    [][(pc = "draw" /\ pc' = "poll") => night_sky' = night_sky]_vars

\* a frame has been rendered from a scene with a shooting star and a satellite
C10_Witness ==
    /\ pc = "poll"
    /\ Len(frame.draws) > 1
    /\ night_sky.shooting_stars # <<>>
    /\ night_sky.satellites # <<>>

\* an update of the scene that returned (lines 119-145)
UpdateReturned ==
    /\ pc \in {"scene", "flight"}
    /\ pc' = pc
    /\ night_sky' # night_sky

\* the update pushed a new ShootingStar (line 125): one more entity is
\* accounted for after it, kept or removed, than there was before it
ShootingStarSpawned ==
    Len(night_sky'.shooting_stars) + Len(culled'.shooting_stars)
        > Len(night_sky.shooting_stars)

\* the update pushed a new Satellite (line 136)
SatelliteSpawned ==
    Len(night_sky'.satellites) + Len(culled'.satellites)
        > Len(night_sky.satellites)

\* C11: an entity spawned during an update is not advanced or culled in
\* that update: the spawned ShootingStar ends the update in the collection
\* with lifetime = 0, on the cell it was spawned at, and the spawned
\* Satellite ends it in the collection at x = 0.
C11_SpawnNotAdvanced ==
    [][UpdateReturned =>
         /\ ShootingStarSpawned =>
              \E i \in 1 .. Len(night_sky'.shooting_stars) :
                 /\ night_sky'.shooting_stars[i].lifetime = 0
                 /\ night_sky'.shooting_stars[i].x % Scale = 0
                 /\ night_sky'.shooting_stars[i].y % Scale = 0
         /\ SatelliteSpawned =>
              \E i \in 1 .. Len(night_sky'.satellites) :
                 night_sky'.satellites[i].x = 0]_vars

TickStep ==
    /\ (pc = "draw" /\ pc' # "draw") =>
          /\ pc' \in {"poll", "panicked", "error"}
          /\ night_sky' = night_sky
          /\ pc' = "poll" => (frame'.area = area /\ frame'.draws # <<>>)
    /\ (pc = "poll" /\ pc' # "poll") =>
          \/ pc' = "error"
          \/ pc' = "terminated" /\ IsQuit(event')
          \/ /\ pc' = "update"
             /\ ~IsQuit(event')
             /\ event'.type \in {"timeout", "key", "resize", "mouse"}
             /\ night_sky' = night_sky \/ event'.type = "resize"
    /\ (pc = "update" /\ pc' # "update") =>
          \/ pc' = "panicked" /\ night_sky' = night_sky
          \/ /\ pc' = "draw"
             /\ night_sky'.frame_count = U32Inc(night_sky.frame_count)
    /\ (pc' = "draw" /\ pc # "draw") => pc = "update"
    /\ night_sky'.frame_count # night_sky.frame_count =>
          \/ pc = "update"
          \/ pc = "poll" /\ event'.type = "resize"

\* C13 as stated: every tick that does not quit calls update exactly once
\* and then render, so no scene is rendered before its first update (a
\* rendered scene has frame_count > 0) and exactly one update occurs between
\* two consecutive renders.
C13_Original ==
    /\ [](pc = "poll" => night_sky.frame_count # U32Zero)
    /\ [][TickStep]_vars

\* C13 as amended: every tick renders, polls and, unless the key quits,
\* calls update exactly once; every render but the first of the run follows
\* exactly one update, and the first comes before any update.
C13_UpdateOncePerTick == [][TickStep]_vars

\* the third render of a run, after two updates
C13_Witness ==
    /\ pc = "poll"
    /\ frame.draws # <<>>
    /\ night_sky.frame_count = U32(0, 2)

\* C14: every update increases frame_count by exactly 1, at the limit of
\* the 32-bit counter too (frame_count is strictly increasing), and leaves
\* stars, width and height unchanged.
C14_FrameCountIncreases ==
    [][UpdateReturned =>
          /\ U32Less(night_sky.frame_count, night_sky'.frame_count)
          /\ night_sky'.frame_count = U32Inc(night_sky.frame_count)
          /\ night_sky'.stars = night_sky.stars
          /\ night_sky'.width = night_sky.width
          /\ night_sky'.height = night_sky.height]_vars

\* C15: in every satellite drawn, the brightness channel b is in
\* [200, 255] and the blue-shifted channel is b + 50 capped at 255: the
\* three channels are bytes and the shifted one is never smaller than b.
C15_SatelliteChannels ==
    \A k \in 1 .. Len(frame.draws) :
       frame.draws[k].kind = "satellite" =>
          LET c == frame.draws[k].color
          IN /\ c[1] \in 200 .. 255
             /\ c[2] = c[1]
             /\ c[3] = Min(c[1] + 50, 255)
             /\ c[3] >= c[1]

\* the cells of the trail dots drawn in the frame, in the order of the draws
FrameTrailCells ==
    LET dots == SelectSeq(frame.draws, LAMBDA d : d.kind = "trail")
    IN [k \in 1 .. Len(dots) |-> <<dots[k].rect.x, dots[k].rect.y>>]

\* trail dot i of s has truncated coordinates that are non-negative and
\* inside the viewport a
DotInside(s, i, a) ==
    /\ TrailX(s, i) >= 0
    /\ TrailY(s, i) >= 0
    /\ TrailX(s, i) < a.width
    /\ TrailY(s, i) < a.height

\* the head of s is inside the viewport a
HeadInside(s, a) == s.x \div Scale < a.width /\ s.y \div Scale < a.height

\* the cells of the trail dots of s that a frame on a shows, when each dot
\* is drawn on its own test (nested = FALSE) or only with the head
DotsOf(s, a, nested) ==
    LET seen == SelectSeq(<<1, 2, 3>>, LAMBDA i : DotInside(s, i, a))
    IN IF nested /\ ~HeadInside(s, a) THEN <<>>
       ELSE [k \in 1 .. Len(seen) |->
                <<a.x + TrailX(s, seen[k]), a.y + TrailY(s, seen[k])>>]

DotsOfAll(nested) ==
    Flatten([i \in 1 .. Len(night_sky.shooting_stars) |->
                DotsOf(night_sky.shooting_stars[i], frame.area, nested)])

\* C16 as stated: each of the 3 trail dots of a ShootingStar is drawn if and
\* only if its own truncated coordinates are non-negative and inside the
\* viewport, whether or not the head is inside the viewport.
C16_Original == frame.draws # <<>> => FrameTrailCells = DotsOfAll(FALSE)

\* C16 as amended: each trail dot is drawn if and only if the head of its
\* ShootingStar is inside the viewport and the dot's own truncated
\* coordinates are non-negative and inside the viewport.
C16_TrailWithHead == frame.draws # <<>> => FrameTrailCells = DotsOfAll(TRUE)

\* a frame of a scene in which a ShootingStar has its head outside the
\* viewport and a trail dot inside it
C16_Witness ==
    /\ frame.draws # <<>>
    /\ \E i \in 1 .. Len(night_sky.shooting_stars) :
          /\ ~HeadInside(night_sky.shooting_stars[i], frame.area)
          /\ \E k \in 1 .. 3 :
                DotInside(night_sky.shooting_stars[i], k, frame.area)

\* the layer of a draw: background, stars, shooting stars, satellites
Layer(kind) ==
    CASE kind = "background" -> 0
      [] kind = "star" -> 1
      [] kind \in {"head", "trail"} -> 2
      [] kind = "satellite" -> 3

Covers(d, x, y) ==
    /\ d.rect.x <= x /\ x < d.rect.x + d.rect.width
    /\ d.rect.y <= y /\ y < d.rect.y + d.rect.height

\* what the cell (x, y) of the frame ends showing: the last draw on it
Shown(x, y) ==
    LET on == { k \in 1 .. Len(frame.draws) : Covers(frame.draws[k], x, y) }
    IN frame.draws[CHOOSE k \in on : \A j \in on : j <= k]

\* C17: render draws the background, then the stars, then the shooting
\* stars (each head followed by its trail), then the satellites, and the
\* last draw on a cell is the one shown: a cell with a satellite shows the
\* satellite, a cell with a shooting star (head or trail) and no satellite
\* shows a shooting-star glyph, whatever star lies under it.
C17_DrawOrder ==
    frame.draws # <<>> =>
      /\ frame.draws[1].kind = "background"
      /\ \A j, k \in 1 .. Len(frame.draws) :
            j < k => Layer(frame.draws[j].kind) <= Layer(frame.draws[k].kind)
      /\ \A k \in 1 .. Len(frame.draws) :
            LET d == frame.draws[k]
            IN /\ d.kind = "trail" =>
                    k > 1 /\ frame.draws[k - 1].kind \in {"head", "trail"}
               /\ d.kind = "satellite" =>
                    /\ Shown(d.rect.x, d.rect.y).kind = "satellite"
                    /\ Shown(d.rect.x, d.rect.y).glyph = "diamond"
               /\ d.kind \in {"head", "trail"} =>
                    \/ Shown(d.rect.x, d.rect.y).kind = "satellite"
                    \/ Shown(d.rect.x, d.rect.y).glyph \in {"comet", "middle_dot"}
                       /\ Shown(d.rect.x, d.rect.y).kind \in {"head", "trail"}

\* a frame in which the head of a shooting star is drawn on the cell of a
\* star, and a satellite is drawn too
C17_Witness ==
    /\ \E j, k \in 1 .. Len(frame.draws) :
          /\ frame.draws[j].kind = "star"
          /\ frame.draws[k].kind = "head"
          /\ frame.draws[k].rect = frame.draws[j].rect
          /\ Shown(frame.draws[j].rect.x, frame.draws[j].rect.y).glyph = "comet"
    /\ \E k \in 1 .. Len(frame.draws) : frame.draws[k].kind = "satellite"

\* C18: a Satellite spawned in a scene of height h starts at x = 0 with y
\* in [5, h - 5) when h >= 10 and with y = 0 when h < 10, and the spawn
\* succeeds for every h >= 0.
C18_SatelliteSpawn ==
    /\ pc # "panicked"
    /\ pc = "spawned" =>
          LET s == night_sky.satellites[Len(night_sky.satellites)]
              h == night_sky.height
          IN /\ s.x = 0
             /\ h >= 10 => (5 * Scale <= s.y /\ s.y < (h - 5) * Scale)
             /\ h < 10 => s.y = 0

\* the glyph and the colour the specification gives for a displayed
\* brightness d
SpecStarLook(d) ==
    CASE d \in {0, 1} -> <<"middle_dot", <<100, 100, 120>>>>
      [] d = 2 -> <<"bullet", <<150, 150, 180>>>>
      [] d = 3 -> <<"bullet", <<200, 200, 220>>>>
      [] d = 4 -> <<"four_pointed_star", <<230, 230, 250>>>>
      [] d = 5 -> <<"four_pointed_star", <<255, 255, 255>>>>

\* the stars of the scene that lie inside the area of the frame
FrameStars ==
    SelectSeq(night_sky.stars,
              LAMBDA st : st.x < frame.area.width /\ st.y < frame.area.height)

\* C19: the glyph and the colour of a drawn star are those of the table for
\* its displayed brightness d, which is in 0..5 and never exceeds the base
\* brightness of the star: d in {0, 1} the dim dot in (100, 100, 120), d = 2
\* a dot in (150, 150, 180), d = 3 a dot in (200, 200, 220), d = 4 the star
\* glyph in (230, 230, 250), d = 5 the star glyph in (255, 255, 255).
C19_StarTable ==
    frame.draws # <<>> =>
      LET drawn == SelectSeq(frame.draws, LAMBDA d : d.kind = "star")
      IN /\ Len(drawn) = Len(FrameStars)
         /\ \A k \in 1 .. Len(drawn) :
               LET d == DisplayedBrightness(FrameStars[k], night_sky.frame_count)
               IN /\ d \in 0 .. 5
                  /\ d <= FrameStars[k].brightness
                  /\ <<drawn[k].glyph, drawn[k].color>> = SpecStarLook(d)

\* a frame whose star is drawn at the full brightness 5, in pure white
C19_Witness ==
    \E k \in 1 .. Len(frame.draws) :
       /\ frame.draws[k].kind = "star"
       /\ frame.draws[k].glyph = "four_pointed_star"
       /\ frame.draws[k].color = <<255, 255, 255>>

\* C20: every ShootingStar is gone from the collection no later than its
\* max_lifetime-th update, the one that spawned it included, wherever it
\* is: an update ages every star in the collection by one and a spawned one
\* to 1, and no star is kept with lifetime >= max_lifetime.  At most one is
\* spawned per update, so the lifetimes in the collection are distinct
\* (older first) and lie in 1 .. max_lifetime - 1 with max_lifetime < 30:
\* the collection never holds 30 entities.
C20_Removed ==
    /\ [](\A i \in 1 .. Len(night_sky.shooting_stars) :
            /\ night_sky.shooting_stars[i].lifetime >= 1
            /\ night_sky.shooting_stars[i].lifetime
                  < night_sky.shooting_stars[i].max_lifetime
            /\ night_sky.shooting_stars[i].max_lifetime < 30)
    /\ [](\A i, j \in 1 .. Len(night_sky.shooting_stars) :
            i < j => night_sky.shooting_stars[i].lifetime
                        > night_sky.shooting_stars[j].lifetime)
    /\ [](Len(night_sky.shooting_stars) < 30)
    /\ [][UpdateReturned =>
            /\ \A j \in 1 .. Len(night_sky'.shooting_stars) :
                  \/ night_sky'.shooting_stars[j].lifetime = 1
                  \/ \E i \in 1 .. Len(night_sky.shooting_stars) :
                        night_sky'.shooting_stars[j] =
                           [night_sky.shooting_stars[i] EXCEPT
                               !.x = @ + night_sky.shooting_stars[i].speed,
                               !.y = @ + night_sky.shooting_stars[i].speed \div 2,
                               !.lifetime = @ + 1]
            /\ Len(night_sky'.shooting_stars)
                  <= Len(night_sky.shooting_stars) + 1]_vars

\* a ShootingStar still inside the scene has just been removed by its
\* max_lifetime-th update while two younger ones are in flight
C20_Witness ==
    /\ Len(night_sky.shooting_stars) >= 2
    /\ \E i \in 1 .. Len(culled.shooting_stars) :
          /\ culled.shooting_stars[i].lifetime = culled.shooting_stars[i].max_lifetime
          /\ culled.shooting_stars[i].x < night_sky.width * Scale

====
